---- MODULE Spec2Model ----
(***************************************************************************)
(* Model of one vectorized TabletScanner (be/src/exec/vectorized/          *)
(* tablet_scanner.cpp): init, open, get_chunk, close and the counter       *)
(* aggregation, driven synchronously by one thread.  The storage reader,   *)
(* the predicate/expression evaluators and the tablet catalog are external *)
(* collaborators: their outcomes are nondeterministic choices.             *)
(***************************************************************************)
EXTENDS Integers, Sequences, FiniteSets, TLC

\* ---------------------------------------------------------------- bounds
\* number of columns of the tablet schema (column ids 0..NumColumns-1)
NumColumns == 3
\* longest tuple descriptor (slots) handed to a scanner
MaxSlots == 2
\* most column predicates supplied by the conjuncts manager
MaxPreds == 2
\* most conjunct contexts supplied in the scanner params
MaxConjuncts == 1
\* most key ranges supplied in the scanner params
MaxRanges == 2
\* distinct rows a reader chunk may hold (row ids 1..NumRows)
NumRows == 3
\* number of get_next calls on which the reader still does work
MaxPulls == 2
\* most bytes / raw rows the reader adds to its stats in one get_next
MaxStat == 1
\* number of ThriftRpcHelper::rpc calls made
MaxRpcCalls == 3

\* ------------------------------------------------------- program constants
NEGATIVE_INFINITY == "-oo"

\* ---------------------------------------------------------------- state
VARIABLES
    \* environment of the scanner: the parent scan node, the tablet, the query
    parent_slots,          \* _parent->_tuple_desc->slots()
    parent_preds,          \* predicates produced by _parent->_conjuncts_manager
    num_key_columns,       \* _tablet->num_key_columns()
    global_dict_map,       \* slot ids present in runtime_state->get_global_dict_map()
    scan_params,           \* TabletScannerParams given to init
    cancelled,             \* RuntimeState::is_cancelled()
    pulls_left,            \* get_next calls on which the reader still does work
    stats,                 \* _reader->stats()
    \* TabletScanner fields
    init_status,
    tablet,
    conjunct_ctxs,
    scanner_columns,
    query_slots,
    reader_columns,
    predicate_free_pool,
    predicates,
    reader_params,
    reader,
    prj_iter,
    is_open,
    is_closed,
    has_update_counter,
    compressed_bytes_read,
    raw_rows_read,
    \* parent profile counters and process-wide metrics
    counters,
    metrics,
    \* the call in progress / last returned
    pc,
    last_op,
    status,
    chunk,
    \* observation of the collaborators' use
    obs,
    \* the ThriftRpcHelper::rpc call in progress / last returned
    rpc

env_vars == <<parent_slots, parent_preds, num_key_columns, global_dict_map, scan_params>>
init_vars == <<init_status, tablet, conjunct_ctxs, scanner_columns, query_slots,
               reader_columns, predicate_free_pool, predicates, reader_params, prj_iter>>
count_vars == <<stats, compressed_bytes_read, raw_rows_read, counters, metrics>>
vars == <<parent_slots, parent_preds, num_key_columns, global_dict_map, scan_params,
          cancelled, pulls_left, stats, init_status, tablet, conjunct_ctxs,
          scanner_columns, query_slots, reader_columns, predicate_free_pool,
          predicates, reader_params, reader, prj_iter, is_open, is_closed,
          has_update_counter, compressed_bytes_read, raw_rows_read, counters,
          metrics, pc, last_op, status, chunk, obs, rpc>>
scanner_vars == <<parent_slots, parent_preds, num_key_columns, global_dict_map, scan_params,
                  cancelled, pulls_left, stats, init_status, tablet, conjunct_ctxs,
                  scanner_columns, query_slots, reader_columns, predicate_free_pool,
                  predicates, reader_params, reader, prj_iter, is_open, is_closed,
                  has_update_counter, compressed_bytes_read, raw_rows_read, counters,
                  metrics, pc, last_op, status, chunk, obs>>

\* ------------------------------------------------------------- input sets
SeqsUpTo(S, n) == UNION {[1..k -> S] : k \in 0..n}

\* a slot: is it materialized, and the index _tablet->field_index(col_name)
\* resolves it to (-1: no such column).  The slot id is its position.
Slots == [materialized : BOOLEAN, index : -1..(NumColumns - 1)]

\* a column predicate: its identity and the verdict of parser.can_pushdown
Preds(n) == {ps \in [1..n -> [id : 1..n, pushdown : BOOLEAN]] : \A i \in 1..n : ps[i].id = i}

BeginKeys == {<<NEGATIVE_INFINITY>>, <<"1">>, <<NEGATIVE_INFINITY, "1">>}
EndKeys == {<<"2">>, <<"3">>}
KeyRanges == [begin_scan_range : BeginKeys, end_scan_range : EndKeys,
              begin_include : BOOLEAN, end_include : BOOLEAN]

\* a chunk the reader yields: distinct rows in scan order
Chunks == {c \in SeqsUpTo(1..NumRows, NumRows) : \A i, j \in DOMAIN c : i < j => c[i] < c[j]}

\* what one get_next adds to the reader's stats: <<compressed bytes, raw rows>>
ReaderWork == {<<0, 0>>} \cup {<<k, k + 1>> : k \in 1..MaxStat}

\* ------------------------------------------------- TabletScanner::init parts
emptyParams == [predicates |-> <<>>, start_key |-> <<>>, end_key |-> <<>>,
                range |-> "", end_range |-> "", skip_aggregation |-> FALSE,
                has_global_dictmaps |-> FALSE, global_dictmaps |-> <<>>]

\* the scanner columns left in slot order (no sort)
unsorted_columns(cols) == cols

\* std::sort(_scanner_columns.begin(), _scanner_columns.end())
sort_columns(cols) == SortSeq(cols, LAMBDA a, b : a < b)

\* _init_return_columns: the loop over the slots, then the sort and the
\* emptiness test.  An unresolved materialized slot returns at once, leaving
\* the columns pushed so far.
RECURSIVE return_columns_loop(_, _, _, _)
return_columns_loop(slots, i, cols, qslots) ==
    IF i > Len(slots)
    THEN [status |-> "OK", scanner_columns |-> cols, query_slots |-> qslots]
    ELSE IF ~slots[i].materialized
    THEN return_columns_loop(slots, i + 1, cols, qslots)
    ELSE IF slots[i].index < 0
    THEN [status |-> "InternalError", scanner_columns |-> cols, query_slots |-> qslots]
    ELSE return_columns_loop(slots, i + 1, Append(cols, slots[i].index), Append(qslots, i))

\* an _init_return_columns without the emptiness test
empty_columns_ok(cols) == "OK"

\* the `if (_scanner_columns.empty())` test that ends _init_return_columns
empty_columns_status(cols) == IF cols = <<>> THEN "InternalError" ELSE "OK"

init_return_columns(slots) ==
    LET l == return_columns_loop(slots, 1, <<>>, <<>>)
        sorted == sort_columns(l.scanner_columns)
    IN  IF l.status # "OK" THEN l
        ELSE [status |-> empty_columns_status(sorted),
              scanner_columns |-> sorted, query_slots |-> l.query_slots]

\* a binder that maps every materialized slot, with or without an entry
init_global_dicts_all(slots, dict) ==
    LET D == {i \in DOMAIN slots : slots[i].materialized}
    IN  [c \in {slots[i].index : i \in D} |->
            CHOOSE i \in D : slots[i].index = c /\ \A j \in D : slots[j].index = c => i <= j]

\* _init_global_dicts: column id -> dictionary of the first materialized slot
\* of that column that has an entry in the query-wide store (emplace keeps
\* the first).  The dictionary is named by its slot id.
init_global_dicts(slots, dict) ==
    LET D == {i \in DOMAIN slots : slots[i].materialized /\ i \in dict}
    IN  [c \in {slots[i].index : i \in D} |->
            CHOOSE i \in D : slots[i].index = c /\ \A j \in D : slots[j].index = c => i <= j]

\* parser.can_pushdown(p)
can_pushdown(p) == p.pushdown

\* the predicates pushed into _params.predicates
pushdown_predicates(preds) == SelectSeq(preds, can_pushdown)

\* a split that adds every predicate to the residual set (a missing `else`)
residual_all(preds) == preds

\* the predicates added to _predicates (residual)
residual_predicates(preds) == SelectSeq(preds, LAMBDA p : ~can_pushdown(p))

\* a range loop without the NEGATIVE_INFINITY test
never_negative_infinity(r) == FALSE

\* the begin bound is the single NEGATIVE_INFINITY sentinel
is_negative_infinity(r) ==
    Len(r.begin_scan_range) = 1 /\ r.begin_scan_range[1] = NEGATIVE_INFINITY

\* the key ranges that reach the push_back calls (the others hit `continue`)
encoded_ranges(key_ranges) == SelectSeq(key_ranges, LAMBDA r : ~is_negative_infinity(r))

\* the range loop of _init_reader_params
init_ranges(p, key_ranges) ==
    LET e == encoded_ranges(key_ranges)
        n == Len(e)
    IN  [p EXCEPT !.range = IF n = 0 THEN p.range
                            ELSE IF e[n].begin_include THEN "ge" ELSE "gt",
                  !.end_range = IF n = 0 THEN p.end_range
                                ELSE IF e[n].end_include THEN "le" ELSE "lt",
                  !.start_key = p.start_key \o [i \in 1..n |-> e[i].begin_scan_range],
                  !.end_key = p.end_key \o [i \in 1..n |-> e[i].end_scan_range]]

\* an init that always uses the reader itself as the output stage
output_stage_unwrapped(rcols, scols) == "reader"

\* the choice of the output stage in init: the reader itself when it reads as
\* many columns as the scanner returns, a projection over it otherwise
output_stage(rcols, scols) ==
    IF Len(rcols) = Len(scols) THEN "reader" ELSE "projection"

\* _tablet->tablet_schema().column(index).is_key(): the key columns are the
\* columns 0 .. num_key_columns-1
is_key(index, nkeys) == index < nkeys

\* the "Return columns" block of _init_reader_params
init_reader_columns(skip_aggregation, nkeys, scols) ==
    IF skip_aggregation THEN scols
    ELSE [i \in 1..nkeys |-> i - 1] \o SelectSeq(scols, LAMBDA c : ~is_key(c, nkeys))

\* how far init gets: the number of the step that returns
\*   1 clone_if_not_exists, 2 _get_tablet, 3 _init_return_columns,
\*   4 init_encoded_schema, 5 _reader->prepare, 6 the final OK
init_return_step(clone_ok, tablet_found, columns_status, encoded_ok, prepare_ok) ==
    IF ~clone_ok THEN 1
    ELSE IF ~tablet_found THEN 2
    ELSE IF columns_status # "OK" THEN 3
    ELSE IF ~encoded_ok THEN 4
    ELSE IF ~prepare_ok THEN 5
    ELSE 6

\* --------------------------------------------------------------- init
InitScanner ==
    /\ pc = "idle"
    /\ last_op = "new"
    /\ \E clone_ok, tablet_found, encoded_ok, prepare_ok \in BOOLEAN :
        LET rc == init_return_columns(parent_slots)
            step == init_return_step(clone_ok, tablet_found, rc.status, encoded_ok, prepare_ok)
            rcols == init_reader_columns(scan_params.skip_aggregation, num_key_columns,
                                         rc.scanner_columns)
            p0 == [emptyParams EXCEPT
                     !.has_global_dictmaps = TRUE,
                     !.global_dictmaps = init_global_dicts(parent_slots, global_dict_map),
                     !.skip_aggregation = scan_params.skip_aggregation,
                     !.predicates = pushdown_predicates(parent_preds)]
        IN  /\ conjunct_ctxs' = IF step > 1 THEN [i \in 1..scan_params.conjuncts |-> i] ELSE <<>>
            /\ tablet' = IF step > 2 THEN "tablet" ELSE "null"
            /\ scanner_columns' = IF step > 2 THEN rc.scanner_columns ELSE <<>>
            /\ query_slots' = IF step > 2 THEN rc.query_slots ELSE <<>>
            /\ reader_params' = IF step > 3 THEN init_ranges(p0, scan_params.key_ranges)
                                ELSE emptyParams
            /\ predicate_free_pool' = IF step > 3 THEN parent_preds ELSE <<>>
            /\ predicates' = IF step > 3 THEN residual_predicates(parent_preds) ELSE <<>>
            /\ reader_columns' = IF step > 3 THEN rcols ELSE <<>>
            /\ reader' = IF step > 3 THEN "reader" ELSE "null"
            /\ prj_iter' = IF step <= 3 THEN "null"
                           ELSE output_stage(rcols, rc.scanner_columns)
            /\ init_status' = IF step = 6 THEN "OK" ELSE "InternalError"
            /\ status' = init_status'
            /\ obs' = [obs EXCEPT !.init_step = step]
    /\ last_op' = "init"
    /\ UNCHANGED <<rpc, env_vars, cancelled, pulls_left, count_vars, is_open, is_closed,
                   has_update_counter, pc, chunk>>

\* --------------------------------------------------------------- open
\* _reader->open(_params) succeeds or fails; the reader is not in src/
Open ==
    /\ pc = "idle"
    /\ init_status = "OK"
    /\ is_open \/ reader # "null"
    /\ IF is_open
       THEN /\ status' = "OK"
            /\ UNCHANGED <<is_open, obs>>
       ELSE \E open_ok \in BOOLEAN :
            /\ is_open' = TRUE
            /\ obs' = [obs EXCEPT !.reader_opens = @ + 1]
            /\ status' = IF open_ok THEN "OK" ELSE "InternalError"
    /\ last_op' = "open"
    /\ UNCHANGED <<rpc, env_vars, cancelled, pulls_left, count_vars, init_vars, reader,
                   is_closed, has_update_counter, pc, chunk>>

\* ------------------------------------------------------------ get_chunk
\* a residual column predicate selects a row (decided by the row's data)
PredSelects(p, row) == row % (p.id + 1) = 1

\* a conjunct context selects a row
ConjunctSelects(ctx, row) == row <= ctx

\* _predicates.evaluate(chunk, _selection.data(), 0, nrows): the selection
\* vector of the conjunction of the residual predicates
evaluate(preds, c) ==
    [i \in DOMAIN c |-> \A k \in DOMAIN preds : PredSelects(preds[k], c[i])]

\* the selection ExecNode::eval_conjuncts computes from the contexts
conjuncts_selection(ctxs, c) ==
    [i \in DOMAIN c |-> \A k \in DOMAIN ctxs : ConjunctSelects(ctxs[k], c[i])]

\* chunk->filter(selection): keep the selected rows, in order
RECURSIVE filter(_, _)
filter(c, selection) ==
    IF c = <<>> THEN <<>>
    ELSE LET n == Len(c)
             front == filter(SubSeq(c, 1, n - 1), SubSeq(selection, 1, n - 1))
         IN  IF selection[n] THEN Append(front, c[n]) ELSE front

\* chunk->memory_usage(): grows with the number of rows held
memory_usage(c) == Len(c)

\* a get_chunk that does not evaluate the residual predicates
predicate_stage_skipped(preds, c) == c

\* the `if (!_predicates.empty())` block
predicate_stage(preds, c) ==
    IF preds # <<>> THEN filter(c, evaluate(preds, c)) ELSE c

\* a get_chunk that does not evaluate the conjuncts
conjunct_stage_skipped(ctxs, c) == c

\* the `if (!_conjunct_ctxs.empty())` block
conjunct_stage(ctxs, c) ==
    IF ctxs # <<>> THEN filter(c, conjuncts_selection(ctxs, c)) ELSE c

\* a realtime update that forgets to reset the reader's transient counters
update_realtime_counter_no_reset(cv) ==
    [cv EXCEPT
        !.counters.read_compressed_counter = @ + cv.stats.compressed_bytes_read,
        !.compressed_bytes_read = @ + cv.stats.compressed_bytes_read,
        !.counters.raw_rows_counter = @ + cv.stats.raw_rows_read,
        !.raw_rows_read = @ + cv.stats.raw_rows_read]

\* a realtime update that adds the scanner's running totals, not the deltas
update_realtime_counter_cumulative(cv) ==
    LET bytes == cv.compressed_bytes_read + cv.stats.compressed_bytes_read
        rows == cv.raw_rows_read + cv.stats.raw_rows_read
    IN  [cv EXCEPT
            !.counters.read_compressed_counter = @ + bytes,
            !.compressed_bytes_read = bytes,
            !.stats.compressed_bytes_read = 0,
            !.counters.raw_rows_counter = @ + rows,
            !.raw_rows_read = rows,
            !.stats.raw_rows_read = 0]

\* _update_realtime_counter
update_realtime_counter(cv) ==
    [cv EXCEPT
        !.counters.read_compressed_counter = @ + cv.stats.compressed_bytes_read,
        !.compressed_bytes_read = @ + cv.stats.compressed_bytes_read,
        !.stats.compressed_bytes_read = 0,
        !.counters.raw_rows_counter = @ + cv.stats.raw_rows_read,
        !.raw_rows_read = @ + cv.stats.raw_rows_read,
        !.stats.raw_rows_read = 0]

\* the counting state as one record, for the two counter routines
counting == [stats |-> stats, compressed_bytes_read |-> compressed_bytes_read,
             raw_rows_read |-> raw_rows_read, counters |-> counters, metrics |-> metrics,
             has_update_counter |-> has_update_counter]

SetCounting(cv) ==
    /\ stats' = cv.stats
    /\ compressed_bytes_read' = cv.compressed_bytes_read
    /\ raw_rows_read' = cv.raw_rows_read
    /\ counters' = cv.counters
    /\ metrics' = cv.metrics
    /\ has_update_counter' = cv.has_update_counter

\* a loop test that never repeats the pull
loop_never(c) == FALSE

\* the loop test `while (chunk->num_rows() == 0)`
loop_again(c) == Len(c) = 0

\* a get_chunk that does not test for cancellation
never_cancelled(flag) == FALSE

\* the cancellation test at the head of get_chunk
is_cancelled(flag) == flag

\* a failed pull that still runs the realtime counter update
failed_pull_updates(cv) == update_realtime_counter(cv)

\* RETURN_IF_ERROR in the loop: a non-OK get_next leaves get_chunk at once,
\* before the filter stages and before _update_realtime_counter
failed_pull(cv) == cv

\* a loop that does not leave get_chunk on a non-OK get_next but waits
next_pc_waiting(outcome, c) ==
    IF outcome # "OK" THEN "waiting"
    ELSE IF loop_again(c) THEN "get_chunk" ELSE "idle"

\* where one iteration of the do-while loop leads: out of get_chunk on a
\* non-OK get_next, back to the pull on an empty chunk, out otherwise
next_pc(outcome, c) ==
    IF outcome # "OK" THEN "idle"
    ELSE IF loop_again(c) THEN "get_chunk" ELSE "idle"

\* entry of get_chunk: the cancellation test; the caller hands in an empty chunk.
\* The scan node pulls only from a scanner whose init succeeded, that it has
\* not closed (close releases _reader, which _update_realtime_counter
\* dereferences) and whose counters it has not flushed yet.
GetChunkCall ==
    /\ pc = "idle"
    /\ init_status = "OK"
    /\ reader # "null"
    /\ ~has_update_counter
    /\ last_op' = "get_chunk"
    /\ chunk' = <<>>
    /\ obs' = [obs EXCEPT !.get_next_calls = 0, !.evals = 0, !.discarded = 0,
                          !.mem_pred = 0, !.mem_conj = 0, !.pulled = <<>>,
                          !.reader_status = "none"]
    /\ IF is_cancelled(cancelled)
       THEN /\ status' = "Cancelled"
            /\ pc' = "idle"
       ELSE /\ status' = "none"
            /\ pc' = "get_chunk"
    /\ UNCHANGED <<rpc, env_vars, cancelled, pulls_left, count_vars, init_vars, reader,
                   is_open, is_closed, has_update_counter>>

\* a row passes every residual predicate and every conjunct of the scanner
RowPasses(row) ==
    /\ \A k \in DOMAIN predicates : PredSelects(predicates[k], row)
    /\ \A k \in DOMAIN conjunct_ctxs : ConjunctSelects(conjunct_ctxs[k], row)

\* one iteration of the do-while loop: _prj_iter->get_next, the two filter
\* stages, the loop test, and on exit _update_realtime_counter.
\* The reader's outcome, the chunk it yields and what it adds to its stats are
\* its own; once pulls_left is used up it only signals end-of-stream or error.
\* The reader yields the tablet's rows in scan order, each row once: a chunk
\* holds rows beyond the last one yielded (obs.scan_pos).
GetChunkPull ==
    /\ pc = "get_chunk"
    /\ \E outcome \in {"OK", "EndOfFile", "InternalError"}, c \in Chunks,
          w \in ReaderWork :
        /\ pulls_left = 0 => outcome # "OK" /\ w = <<0, 0>>
        /\ outcome # "OK" => c = <<>>
        /\ \A i \in DOMAIN c : c[i] > obs.scan_pos
        /\ pulls_left' = IF pulls_left = 0 THEN 0 ELSE pulls_left - 1
        /\ LET b == w[1]
               r == w[2]
               read == [counting EXCEPT !.stats.compressed_bytes_read = @ + b,
                                        !.stats.raw_rows_read = @ + r]
               c1 == predicate_stage(predicates, c)
               c2 == conjunct_stage(conjunct_ctxs, c1)
               nstages == (IF predicates # <<>> THEN 1 ELSE 0)
                          + (IF conjunct_ctxs # <<>> THEN 1 ELSE 0)
               passing == SelectSeq(c, RowPasses)
               o1 == [obs EXCEPT !.get_next_calls = @ + 1,
                                 !.total_bytes = @ + b, !.total_rows = @ + r,
                                 !.reader_status = outcome,
                                 !.scan_pos = IF c = <<>> THEN @ ELSE c[Len(c)],
                                 !.surviving = IF outcome = "OK" /\ passing # <<>>
                                               THEN Append(@, passing) ELSE @]
           IN  IF outcome # "OK"
               THEN /\ status' = outcome
                    /\ pc' = next_pc(outcome, c)
                    /\ chunk' = chunk
                    /\ SetCounting(failed_pull(read))
                    /\ obs' = o1
               ELSE /\ chunk' = c2
                    /\ obs' = [o1 EXCEPT
                                 !.returned = IF loop_again(c2) THEN @ ELSE Append(@, c2),
                                 !.evals = @ + nstages,
                                 !.pulled = c,
                                 !.discarded = IF c2 = <<>> THEN @ + 1 ELSE @,
                                 !.mem_pred = IF predicates # <<>>
                                              THEN memory_usage(c1) - memory_usage(c) ELSE 0,
                                 !.mem_conj = IF conjunct_ctxs # <<>>
                                              THEN memory_usage(c2) - memory_usage(c1) ELSE 0]
                    /\ IF loop_again(c2)
                       THEN /\ pc' = next_pc(outcome, c2)
                            /\ status' = status
                            /\ SetCounting(read)
                       ELSE /\ pc' = next_pc(outcome, c2)
                            /\ status' = "OK"
                            /\ SetCounting(update_realtime_counter(read))
    /\ UNCHANGED <<rpc, env_vars, cancelled, init_vars, reader, is_open, is_closed, last_op>>

\* --------------------------------------------------------- update_counter
\* the counters the model keeps: compressed bytes, raw rows, the pushdown
\* predicate count and the two process-wide metrics
update_counter(cv, npushdown) ==
    IF cv.has_update_counter THEN cv
    ELSE LET bytes == cv.compressed_bytes_read + cv.stats.compressed_bytes_read
             rows == cv.raw_rows_read + cv.stats.raw_rows_read
         IN  [cv EXCEPT
                !.counters.read_compressed_counter = @ + cv.stats.compressed_bytes_read,
                !.compressed_bytes_read = bytes,
                !.counters.raw_rows_counter = @ + cv.stats.raw_rows_read,
                !.raw_rows_read = rows,
                !.counters.pushdown_predicates_counter = npushdown,
                !.metrics.query_scan_bytes = @ + bytes,
                !.metrics.query_scan_rows = @ + rows,
                !.has_update_counter = TRUE]

\* update_counter called by the scan node itself (it is public), when it is
\* done pulling chunks from this scanner
UpdateCounter ==
    /\ pc = "idle"
    /\ init_status = "OK"
    /\ has_update_counter \/ reader # "null"
    /\ SetCounting(update_counter(counting, Len(reader_params.predicates)))
    /\ last_op' = "update_counter"
    /\ UNCHANGED <<rpc, env_vars, cancelled, pulls_left, init_vars, reader, is_open,
                   is_closed, pc, status, chunk, obs>>

\* --------------------------------------------------------------- close
\* a close that does not test _is_closed
never_closed(closed) == FALSE

\* the `if (_is_closed)` test at the head of close
already_closed(closed) == closed

Close ==
    /\ pc = "idle"
    /\ last_op # "new"
    /\ is_closed \/ prj_iter # "null"
    /\ IF already_closed(is_closed)
       THEN /\ obs' = [obs EXCEPT !.closed_again = TRUE]
            /\ UNCHANGED <<count_vars, has_update_counter, reader, predicate_free_pool,
                           is_closed>>
       ELSE /\ SetCounting(update_counter(counting, Len(reader_params.predicates)))
            /\ reader' = "null"
            /\ predicate_free_pool' = <<>>
            /\ is_closed' = TRUE
            /\ obs' = [obs EXCEPT !.prj_closes = @ + 1, !.reader_resets = @ + 1,
                                  !.pool_clears = @ + 1, !.expr_closes = @ + 1]
    /\ status' = "OK"
    /\ last_op' = "close"
    /\ UNCHANGED <<rpc, env_vars, cancelled, pulls_left, init_status, tablet, conjunct_ctxs,
                   scanner_columns, query_slots, reader_columns, predicates,
                   reader_params, prj_iter, is_open, pc, chunk>>

\* ----------------------------------------------------------- cancellation
\* the query is cancelled by another thread, at any time
Cancel ==
    /\ ~cancelled
    /\ cancelled' = TRUE
    /\ UNCHANGED <<rpc, env_vars, pulls_left, count_vars, init_vars, reader, is_open,
                   is_closed, has_update_counter, pc, last_op, status, chunk, obs>>

\* ------------------------------------------------- ThriftRpcHelper::rpc
\* (be/src/util/thrift_rpc_helper.cpp)  One call at a time; the connection,
\* the callback and reopen are collaborators whose outcomes are chosen freely.
\* A callback ends normally ("ok"), raises a TTransportException
\* ("transport"), another TException ("texception") or an exception that is
\* no TException ("other"), which leaves rpc uncaught.
CallbackOutcomes == {"ok", "transport", "texception", "other"}
ThriftExceptions == {"transport", "texception"}

rpcIdle == [pc |-> "idle", calls |-> 0, status |-> "none", connect |-> "none",
            callbacks |-> 0, first |-> "none", reopen |-> "none", second |-> "none",
            reopens |-> 0, sleeps |-> 0, total_callbacks |-> 0]

\* lines 66-72: the ClientConnection is built; a failed connect returns its status
RpcCall ==
    /\ rpc.pc = "idle"
    /\ rpc.calls < MaxRpcCalls
    /\ \E connect_ok \in BOOLEAN :
        rpc' = [rpcIdle EXCEPT
                  !.calls = rpc.calls + 1,
                  !.total_callbacks = rpc.total_callbacks,
                  !.connect = IF connect_ok THEN "ok" ELSE "fail",
                  !.status = IF connect_ok THEN "none" ELSE "ConnectError",
                  !.pc = IF connect_ok THEN "callback" ELSE "idle"]
    /\ UNCHANGED scanner_vars

\* where the first callback(client) leads (lines 75-76, 84, 93)
first_next(out) ==
    IF out = "transport" THEN "reopen"
    ELSE IF out = "texception" THEN "failed"
    ELSE "idle"

\* the status rpc ends with when a callback ends it without the catch handlers
callback_status(out) == IF out = "ok" THEN "OK" ELSE IF out = "other" THEN "thrown" ELSE "none"

\* line 75: the first callback(client)
RpcCallback ==
    /\ rpc.pc = "callback"
    /\ \E out \in CallbackOutcomes :
        rpc' = [rpc EXCEPT !.callbacks = @ + 1, !.total_callbacks = @ + 1,
                           !.first = out,
                           !.status = callback_status(out),
                           !.pc = first_next(out)]
    /\ UNCHANGED scanner_vars

\* lines 77-81: reopen after the transport exception; a failed reopen returns
\* its status
RpcReopen ==
    /\ rpc.pc = "reopen"
    /\ \E reopen_ok \in BOOLEAN :
        rpc' = [rpc EXCEPT !.reopens = @ + 1,
                           !.reopen = IF reopen_ok THEN "ok" ELSE "fail",
                           !.status = IF reopen_ok THEN "none" ELSE "ReopenError",
                           !.pc = IF reopen_ok THEN "retry" ELSE "idle"]
    /\ UNCHANGED scanner_vars

\* a retry whose transport exception leads to another reopen and retry
retry_next_again(out) ==
    IF out = "transport" THEN "reopen"
    ELSE IF out = "texception" THEN "failed"
    ELSE "idle"

\* where the second callback(client) leads (lines 82, 84, 93): any TException
\* it raises is caught by the outer handler
retry_next(out) == IF out \in ThriftExceptions THEN "failed" ELSE "idle"

\* line 82: the second callback(client)
RpcRetry ==
    /\ rpc.pc = "retry"
    /\ \E out \in CallbackOutcomes :
        rpc' = [rpc EXCEPT !.callbacks = @ + 1, !.total_callbacks = @ + 1,
                           !.second = out,
                           !.status = callback_status(out),
                           !.pc = retry_next(out)]
    /\ UNCHANGED scanner_vars

\* a terminal handler that gives up without the backoff sleep
terminal_failure_no_backoff(r) ==
    [r EXCEPT !.reopens = @ + 1, !.status = "ThriftRpcError", !.pc = "idle"]

\* lines 84-92: the outer catch: SleepFor, reopen (result ignored), ThriftRpcError
terminal_failure(r) ==
    [r EXCEPT !.sleeps = @ + 1, !.reopens = @ + 1, !.status = "ThriftRpcError",
              !.pc = "idle"]

RpcFail ==
    /\ rpc.pc = "failed"
    /\ rpc' = terminal_failure(rpc)
    /\ UNCHANGED scanner_vars

\* ------------------------------------------------------ initial states
emptyObs == [init_step |-> 0, reader_opens |-> 0, get_next_calls |-> 0,
             evals |-> 0, discarded |-> 0, mem_pred |-> 0, mem_conj |-> 0,
             pulled |-> <<>>, total_bytes |-> 0, total_rows |-> 0,
             prj_closes |-> 0, reader_resets |-> 0,
             pool_clears |-> 0, expr_closes |-> 0, closed_again |-> FALSE,
             scan_pos |-> 0, reader_status |-> "none", surviving |-> <<>>, returned |-> <<>>]

\* TabletScanner::TabletScanner and the default member initializers
Constructed ==
    /\ init_status = "none"
    /\ tablet = "null"
    /\ conjunct_ctxs = <<>>
    /\ scanner_columns = <<>>
    /\ query_slots = <<>>
    /\ reader_columns = <<>>
    /\ predicate_free_pool = <<>>
    /\ predicates = <<>>
    /\ reader_params = emptyParams
    /\ reader = "null"
    /\ prj_iter = "null"
    /\ is_open = FALSE
    /\ is_closed = FALSE
    /\ has_update_counter = FALSE
    /\ compressed_bytes_read = 0
    /\ raw_rows_read = 0
    /\ stats = [compressed_bytes_read |-> 0, raw_rows_read |-> 0]
    /\ counters = [read_compressed_counter |-> 0, raw_rows_counter |-> 0,
                   pushdown_predicates_counter |-> 0]
    /\ metrics = [query_scan_bytes |-> 0, query_scan_rows |-> 0]
    /\ cancelled = FALSE
    /\ pc = "idle"
    /\ last_op = "new"
    /\ status = "none"
    /\ chunk = <<>>
    /\ obs = emptyObs
    /\ rpc = rpcIdle

oneSlot == <<[materialized |-> TRUE, index |-> 0]>>

\* scans: any split of the predicates, with and without conjuncts, a reader
\* that yields up to MaxPulls chunks
Init ==
    /\ Constructed
    /\ parent_slots = oneSlot
    /\ num_key_columns = 1
    /\ global_dict_map = {}
    /\ parent_preds \in {<<>>, <<[id |-> 1, pushdown |-> FALSE]>>}
    /\ scan_params \in [skip_aggregation : {TRUE}, conjuncts : 0..MaxConjuncts,
                        key_ranges : {<<>>}]
    /\ pulls_left = MaxPulls

\* predicates: any list of column predicates, any verdict of the oracle
InitPreds ==
    /\ Constructed
    /\ parent_slots = oneSlot
    /\ num_key_columns = 1
    /\ global_dict_map = {}
    /\ parent_preds \in UNION {Preds(n) : n \in 0..MaxPreds}
    /\ scan_params \in [skip_aggregation : {TRUE}, conjuncts : {0}, key_ranges : {<<>>}]
    /\ pulls_left = 0

\* schemas: any tuple descriptor, key column count and aggregation flag
InitColumns ==
    /\ Constructed
    /\ parent_slots \in SeqsUpTo(Slots, MaxSlots)
    /\ num_key_columns \in 1..NumColumns
    /\ global_dict_map = {}
    /\ parent_preds = <<>>
    /\ scan_params \in [skip_aggregation : BOOLEAN, conjuncts : {0}, key_ranges : {<<>>}]
    /\ pulls_left = 0

\* dictionaries: any tuple descriptor, any set of slots with a dictionary
InitDicts ==
    /\ Constructed
    /\ parent_slots \in SeqsUpTo(Slots, MaxSlots)
    /\ num_key_columns = 1
    /\ global_dict_map \in SUBSET (1..Len(parent_slots))
    /\ parent_preds = <<>>
    /\ scan_params \in [skip_aggregation : {TRUE}, conjuncts : {0}, key_ranges : {<<>>}]
    /\ pulls_left = 0

\* key ranges: any list of key ranges
InitRanges ==
    /\ Constructed
    /\ parent_slots = oneSlot
    /\ num_key_columns = 1
    /\ global_dict_map = {}
    /\ parent_preds = <<>>
    /\ scan_params \in [skip_aggregation : {TRUE}, conjuncts : {0},
                        key_ranges : SeqsUpTo(KeyRanges, MaxRanges)]
    /\ pulls_left = 0

\* get_chunk over a reader with MaxPulls chunks: one residual predicate and
\* one conjunct, so that chunks can be filtered to nothing by either stage
InitLive ==
    /\ Constructed
    /\ parent_slots = oneSlot
    /\ num_key_columns = 1
    /\ global_dict_map = {}
    /\ parent_preds = <<[id |-> 1, pushdown |-> FALSE]>>
    /\ scan_params = [skip_aggregation |-> TRUE, conjuncts |-> 1, key_ranges |-> <<>>]
    /\ pulls_left = MaxPulls

\* rpc calls: the scanner is left as constructed
InitRpc ==
    /\ Constructed
    /\ parent_slots = oneSlot
    /\ num_key_columns = 1
    /\ global_dict_map = {}
    /\ parent_preds = <<>>
    /\ scan_params = [skip_aggregation |-> TRUE, conjuncts |-> 0, key_ranges |-> <<>>]
    /\ pulls_left = 0

NextRpc ==
    \/ RpcCall
    \/ RpcCallback
    \/ RpcReopen
    \/ RpcRetry
    \/ RpcFail

Next ==
    \/ InitScanner
    \/ Open
    \/ GetChunkCall
    \/ GetChunkPull
    \/ UpdateCounter
    \/ Close
    \/ Cancel

Spec == Init /\ [][Next]_vars
SpecPreds == InitPreds /\ [][Next]_vars
SpecColumns == InitColumns /\ [][Next]_vars
SpecRanges == InitRanges /\ [][Next]_vars
SpecDicts == InitDicts /\ [][Next]_vars
\* the thread that called get_chunk keeps running its loop
SpecLive == InitLive /\ [][Next]_vars /\ WF_vars(GetChunkPull)
SpecRpc == InitRpc /\ [][NextRpc]_vars

\* ================================================================ claims
InSeq(x, q) == \E i \in DOMAIN q : q[i] = x
Occurrences(x, q) == Cardinality({i \in DOMAIN q : q[i] = x})
IsSorted(q) == \A i, j \in DOMAIN q : i < j => q[i] <= q[j]
\* init got past _init_reader_params
ParamsBuilt == obs.init_step > 3
\* get_chunk has returned
Returned == pc = "idle" /\ last_op = "get_chunk"

\* C1: a get_chunk that returns OK leaves a chunk with at least one row; any
\* other return is end-of-stream, an error or Cancelled.
C1_OKMeansNonEmpty ==
    Returned =>
        /\ status \in {"OK", "EndOfFile", "InternalError", "Cancelled"}
        /\ status = "OK" => Len(chunk) >= 1

\* get_chunk returned OK after it discarded a fully filtered chunk
C1_Witness ==
    Returned /\ status = "OK" /\ obs.discarded >= 1 /\ Len(chunk) >= 1

\* C2: a get_chunk called while the runtime state is cancelled returns
\* Cancelled at once: no get_next, no predicate or conjunct evaluation, the
\* reader and every counter unchanged.
C2_CancelledReturnsAtOnce ==
    [][(pc = "idle" /\ cancelled /\ last_op' = "get_chunk") =>
         /\ pc' = "idle"
         /\ status' = "Cancelled"
         /\ obs'.get_next_calls = 0
         /\ obs'.evals = 0
         /\ UNCHANGED <<pulls_left, stats, compressed_bytes_read, raw_rows_read,
                        counters, metrics>>]_vars

\* a cancelled scan: get_chunk returned Cancelled after an earlier pull
C2_Witness ==
    Returned /\ status = "Cancelled" /\ cancelled /\ pulls_left < MaxPulls

\* C3 (as claimed): after an open that failed, is_open is unset.
C3_FailedOpenLeavesUnset ==
    (pc = "idle" /\ last_op = "open" /\ status = "InternalError") => ~is_open

\* C4: a close after the first one returns OK, changes no counter and no
\* metric, and repeats none of the first close's actions.
C4_CloseIdempotent ==
    /\ [](is_closed => /\ obs.prj_closes = 1
                       /\ obs.reader_resets = 1
                       /\ obs.pool_clears = 1
                       /\ obs.expr_closes = 1)
    /\ [][(is_closed /\ last_op' = "close") =>
            /\ status' = "OK"
            /\ UNCHANGED <<stats, compressed_bytes_read, raw_rows_read, counters, metrics,
                           has_update_counter, reader, predicate_free_pool, is_closed>>
            /\ obs'.prj_closes = obs.prj_closes
            /\ obs'.reader_resets = obs.reader_resets
            /\ obs'.pool_clears = obs.pool_clears
            /\ obs'.expr_closes = obs.expr_closes]_vars

\* close was called again on a closed scanner that had counted something
C4_Witness ==
    is_closed /\ obs.closed_again /\ last_op = "close" /\ metrics.query_scan_bytes > 0

\* C5: once closed, the parent's compressed-bytes and raw-rows counters and the
\* process-wide metrics all hold exactly what the reader reported in total.
C5_CountedExactlyOnce ==
    is_closed =>
        /\ counters.read_compressed_counter = obs.total_bytes
        /\ counters.raw_rows_counter = obs.total_rows
        /\ metrics.query_scan_bytes = obs.total_bytes
        /\ metrics.query_scan_rows = obs.total_rows

\* closed after a realtime update drained one pull and a later pull, which did
\* not return OK, left its amount in the reader's stats for close to drain
C5_Witness ==
    /\ is_closed
    /\ obs.total_bytes >= 2
    /\ stats.compressed_bytes_read >= 1
    /\ stats.compressed_bytes_read < obs.total_bytes

\* C6: the pushdown set and the residual set partition the supplied
\* predicates by the oracle's verdict, and until close the free pool holds
\* each supplied predicate once.
C6_PredicatesPartitioned ==
    ParamsBuilt =>
        /\ \A i \in DOMAIN parent_preds :
             LET p == parent_preds[i]
             IN  /\ Occurrences(p, reader_params.predicates) = (IF p.pushdown THEN 1 ELSE 0)
                 /\ Occurrences(p, predicates) = (IF p.pushdown THEN 0 ELSE 1)
                 /\ ~is_closed => Occurrences(p, predicate_free_pool) = 1
        /\ Len(reader_params.predicates) + Len(predicates) = Len(parent_preds)
        /\ ~is_closed => Len(predicate_free_pool) = Len(parent_preds)

\* init split a list holding a pushable and a non-pushable predicate
C6_Witness ==
    ParamsBuilt /\ Len(reader_params.predicates) >= 1 /\ Len(predicates) >= 1

\* C7: the reader column list is sorted ascending by column id; when
\* aggregation is not skipped it holds every key column, all before any
\* non-key column.
C7_ReaderColumnsOrdered ==
    ParamsBuilt =>
        /\ IsSorted(reader_columns)
        /\ ~scan_params.skip_aggregation =>
             /\ \A k \in 0..(num_key_columns - 1) : InSeq(k, reader_columns)
             /\ \A i, j \in DOMAIN reader_columns :
                  (reader_columns[i] < num_key_columns /\ reader_columns[j] >= num_key_columns)
                      => i < j

\* slots given out of column order, a non-key column among them, aggregation on
C7_Witness ==
    /\ ParamsBuilt
    /\ ~scan_params.skip_aggregation
    /\ Len(parent_slots) = 2
    /\ parent_slots[1].materialized /\ parent_slots[2].materialized
    /\ parent_slots[1].index > parent_slots[2].index
    /\ parent_slots[1].index >= num_key_columns
    /\ Len(reader_columns) > num_key_columns

\* C8: a key range that begins at the single NEGATIVE_INFINITY sentinel gets
\* no start key: the start keys are exactly the begin bounds of the other
\* ranges.
C8_NegativeInfinityHasNoStartKey ==
    ParamsBuilt =>
        LET kr == scan_params.key_ranges
            bounded == {i \in DOMAIN kr : kr[i].begin_scan_range # <<NEGATIVE_INFINITY>>}
        IN  /\ \A i \in DOMAIN reader_params.start_key :
                 reader_params.start_key[i] # <<NEGATIVE_INFINITY>>
            /\ Len(reader_params.start_key) = Cardinality(bounded)
            /\ bounded = {} => reader_params.start_key = <<>>

\* init resolved a list with a NEGATIVE_INFINITY range and a bounded one
C8_Witness ==
    /\ ParamsBuilt
    /\ \E i, j \in DOMAIN scan_params.key_ranges :
         /\ scan_params.key_ranges[i].begin_scan_range = <<NEGATIVE_INFINITY>>
         /\ scan_params.key_ranges[j].begin_scan_range = <<"1">>
    /\ Len(reader_params.start_key) = 1

\* C9: with no materialized slot init fails in _init_return_columns at the
\* latest; whenever tablet lookup or slot resolution fails, init returns an
\* error and has constructed neither reader nor output stage.
C9_NoReaderOnSchemaFailure ==
    LET mat == {i \in DOMAIN parent_slots : parent_slots[i].materialized}
        unresolved == \E i \in mat : parent_slots[i].index < 0
    IN  last_op # "new" =>
            /\ (mat = {} \/ unresolved \/ tablet = "null") =>
                 /\ obs.init_step <= 3
                 /\ init_status = "InternalError"
                 /\ reader = "null"
                 /\ prj_iter = "null"
                 /\ reader_columns = <<>>
            /\ (mat = {} /\ tablet = "tablet") => obs.init_step = 3
            /\ obs.init_step <= 3 => reader = "null" /\ prj_iter = "null"

\* init found the tablet and then failed on a tuple without materialized slot
C9_Witness ==
    /\ last_op = "init"
    /\ Len(parent_slots) >= 1
    /\ \A i \in DOMAIN parent_slots : ~parent_slots[i].materialized
    /\ obs.init_step = 3
    /\ tablet = "tablet"
    /\ status = "InternalError"

\* C10: the rows left after both filter stages are the pulled rows selected by
\* every residual predicate and every conjunct, in their order, and neither
\* stage reports a positive memory delta.
C10_BothStagesFilter ==
    /\ chunk = SelectSeq(obs.pulled,
                 LAMBDA row : /\ \A k \in DOMAIN predicates : PredSelects(predicates[k], row)
                              /\ \A k \in DOMAIN conjunct_ctxs :
                                   ConjunctSelects(conjunct_ctxs[k], row))
    /\ obs.mem_pred <= 0
    /\ obs.mem_conj <= 0

\* rows [1,2,3], the residual predicate selects {1,3}, the conjunct {1}: [1]
C10_Witness ==
    /\ Returned /\ status = "OK"
    /\ obs.pulled = <<1, 2, 3>>
    /\ predicates # <<>> /\ conjunct_ctxs # <<>>
    /\ chunk = <<1>>
    /\ obs.mem_pred = -1 /\ obs.mem_conj = -1

\* the rows of a list of chunks, concatenated
RECURSIVE Concat(_)
Concat(cs) == IF cs = <<>> THEN <<>> ELSE Concat(SubSeq(cs, 1, Len(cs) - 1)) \o cs[Len(cs)]

\* C11: the chunks returned by the OK get_chunk calls are, in order, the
\* output stage's chunks reduced to their passing rows, the empty ones left
\* out; so the returned rows are the reader's passing rows in scan order.
C11_ChunksInScanOrder ==
    /\ obs.returned = obs.surviving
    /\ Concat(obs.returned) = Concat(obs.surviving)
    /\ \A i \in DOMAIN obs.returned : obs.returned[i] # <<>>

\* two successive calls returned two different filtered chunks
C11_Witness ==
    /\ Returned /\ status = "OK"
    /\ Len(obs.returned) = 2
    /\ obs.returned[1] # obs.returned[2]
    /\ predicates # <<>>

\* C12: a get_chunk that returns OK leaves the reader's transient counters at
\* zero and has added to the parent's realtime counters exactly what the
\* reader accumulated since the previous realtime update: what its stats held
\* plus what the pulls of this step added.
C12_RealtimeDeltas ==
    [][(pc = "get_chunk" /\ pc' = "idle" /\ status' = "OK") =>
         /\ stats'.compressed_bytes_read = 0
         /\ stats'.raw_rows_read = 0
         /\ counters'.read_compressed_counter = counters.read_compressed_counter
               + stats.compressed_bytes_read + (obs'.total_bytes - obs.total_bytes)
         /\ counters'.raw_rows_counter = counters.raw_rows_counter
               + stats.raw_rows_read + (obs'.total_rows - obs.total_rows)
         /\ counters'.read_compressed_counter = obs'.total_bytes
         /\ counters'.raw_rows_counter = obs'.total_rows]_vars

\* a second OK return, each of the two having reported its own delta
C12_Witness ==
    /\ Returned /\ status = "OK"
    /\ Len(obs.returned) = 2
    /\ counters.read_compressed_counter = 2
    /\ stats.compressed_bytes_read = 0

\* C13: the dictionary map handed to the reader is non-null and its keys are
\* exactly the column ids of the materialized slots that have an entry in the
\* query-wide store; a slot without an entry does not fail init.
C13_DictMapExact ==
    LET mat == {i \in DOMAIN parent_slots : parent_slots[i].materialized}
        bound == {i \in mat : i \in global_dict_map}
    IN  /\ ParamsBuilt =>
             /\ reader_params.has_global_dictmaps
             /\ DOMAIN reader_params.global_dictmaps = {parent_slots[i].index : i \in bound}
        /\ (last_op # "new" /\ mat # {} /\ \A i \in mat : parent_slots[i].index >= 0)
              => obs.init_step # 3

\* two materialized slots of different columns, only the second has a dictionary
C13_Witness ==
    /\ init_status = "OK"
    /\ Len(parent_slots) = 2
    /\ parent_slots[1].materialized /\ parent_slots[2].materialized
    /\ parent_slots[1].index # parent_slots[2].index
    /\ global_dict_map = {2}
    /\ DOMAIN reader_params.global_dictmaps = {parent_slots[2].index}

\* an rpc call has returned (or has been left by a foreign exception)
RpcReturned == rpc.pc = "idle" /\ rpc.calls > 0

\* C14 (as stated): the callback is invoked at most twice per call, the second
\* time only after a transport exception of the first and a successful
\* reopen, and the connection is reopened once for a call whose first attempt
\* raised a transport exception.
C14_ReopenedOnce ==
    /\ rpc.callbacks <= 2
    /\ rpc.callbacks = 2 => (rpc.first = "transport" /\ rpc.reopen = "ok")
    /\ (RpcReturned /\ rpc.first = "transport") => rpc.reopens = 1

\* C14 (amended): the callback is invoked at most twice per call, the second
\* time only after a transport exception of the first and a successful
\* reopen; the connection is reopened once before the retry and once more by
\* the terminal handler when the retry raises a Thrift exception, so at most
\* twice per call.
C14_BoundedRetry ==
    /\ rpc.callbacks <= 2
    /\ rpc.callbacks = 2 => (rpc.first = "transport" /\ rpc.reopen = "ok")
    /\ rpc.reopens <= 2
    /\ (RpcReturned /\ rpc.first = "transport") =>
          rpc.reopens = (IF rpc.second \in ThriftExceptions THEN 2 ELSE 1)

\* a retry that raised a transport exception again: two callbacks, two reopens
C14_Witness ==
    /\ RpcReturned
    /\ rpc.first = "transport" /\ rpc.second = "transport"
    /\ rpc.callbacks = 2 /\ rpc.reopens = 2

\* C20: rpc returns OK only if the first callback or the retry completed
\* without exception; a failed connect or a failed reopen after a transport
\* exception is returned as it is with no (further) callback and no sleep;
\* a non-transport Thrift exception of the first attempt or any Thrift
\* exception of the retry makes rpc sleep once, reopen, and return
\* ThriftRpcError with no further callback.
C20_RpcOutcomes ==
    RpcReturned =>
      /\ rpc.status = "OK" <=>
            (rpc.connect = "ok" /\ (rpc.first = "ok" \/ rpc.second = "ok"))
      /\ rpc.connect = "fail" =>
            (rpc.status = "ConnectError" /\ rpc.callbacks = 0 /\ rpc.reopens = 0
               /\ rpc.sleeps = 0)
      /\ (rpc.first = "transport" /\ rpc.reopen = "fail") =>
            (rpc.status = "ReopenError" /\ rpc.callbacks = 1 /\ rpc.reopens = 1
               /\ rpc.sleeps = 0)
      /\ rpc.first = "texception" =>
            (rpc.status = "ThriftRpcError" /\ rpc.sleeps = 1 /\ rpc.callbacks = 1
               /\ rpc.reopens = 1)
      /\ rpc.second \in ThriftExceptions =>
            (rpc.status = "ThriftRpcError" /\ rpc.sleeps = 1 /\ rpc.callbacks = 2
               /\ rpc.reopens = 2)
      /\ rpc.status = "ThriftRpcError" =>
            (rpc.first = "texception" \/ rpc.second \in ThriftExceptions)
      /\ rpc.sleeps > 0 => rpc.status = "ThriftRpcError"

\* a non-transport Thrift exception of the first attempt ended the call in
\* the terminal handler, after an earlier call had succeeded on its retry
C20_Witness ==
    /\ RpcReturned
    /\ rpc.first = "texception"
    /\ rpc.status = "ThriftRpcError" /\ rpc.sleeps = 1
    /\ rpc.calls = 2 /\ rpc.total_callbacks = 3

\* C15: a key range whose lower bound is NEGATIVE_INFINITY still restricts
\* the scan from above: after init its end key is among the reader's end
\* keys, with the range's own inclusive/exclusive flag.
C15_EndKeyKept ==
    ParamsBuilt =>
        \A i \in DOMAIN scan_params.key_ranges :
            LET r == scan_params.key_ranges[i]
            IN  is_negative_infinity(r) =>
                  /\ InSeq(r.end_scan_range, reader_params.end_key)
                  /\ reader_params.end_range = (IF r.end_include THEN "le" ELSE "lt")

\* C16: every encoded range keeps its own inclusive/exclusive semantics: its
\* begin_include flag decides between 'ge' and 'gt' for its start key and its
\* end_include flag between 'le' and 'lt' for its end key, also when the
\* ranges of one list carry different flags.
C16_EachRangeKeepsFlags ==
    ParamsBuilt =>
        LET e == encoded_ranges(scan_params.key_ranges)
        IN  \A i \in DOMAIN e :
              /\ reader_params.start_key[i] = e[i].begin_scan_range
              /\ reader_params.end_key[i] = e[i].end_scan_range
              /\ reader_params.range = (IF e[i].begin_include THEN "ge" ELSE "gt")
              /\ reader_params.end_range = (IF e[i].end_include THEN "le" ELSE "lt")

\* C17: a get_chunk that ends on a non-OK get_next, on the first pull or
\* after discarded chunks, returns the output stage's status unchanged,
\* evaluates nothing in that pull, leaves the realtime counters and the
\* scanner's totals as they were and the reader's transient counters unreset
\* (what that pull added included); close later drains them: after close
\* the parent's counters hold everything the reader has read.
C17_FailurePropagates ==
    [][/\ (pc = "get_chunk" /\ pc' = "idle" /\ status' # "OK") =>
            /\ status' \in {"EndOfFile", "InternalError"}
            /\ status' = obs'.reader_status
            /\ obs'.evals = obs.evals
            /\ chunk' = <<>>
            /\ counters' = counters
            /\ metrics' = metrics
            /\ compressed_bytes_read' = compressed_bytes_read
            /\ raw_rows_read' = raw_rows_read
            /\ stats'.compressed_bytes_read = stats.compressed_bytes_read
                  + (obs'.total_bytes - obs.total_bytes)
            /\ stats'.raw_rows_read = stats.raw_rows_read
                  + (obs'.total_rows - obs.total_rows)
       /\ (~is_closed /\ is_closed') =>
            /\ counters'.read_compressed_counter = obs'.total_bytes
            /\ counters'.raw_rows_counter = obs'.total_rows]_vars

\* end-of-stream after a discarded chunk, with undrained reader counters
C17_Witness ==
    /\ Returned /\ status = "EndOfFile"
    /\ obs.discarded >= 1
    /\ obs.get_next_calls = obs.discarded + 1
    /\ stats.compressed_bytes_read > 0

\* the materialized slots resolve to pairwise distinct column ids
DistinctColumns ==
    \A i, j \in DOMAIN parent_slots :
        (i # j /\ parent_slots[i].materialized /\ parent_slots[j].materialized)
            => parent_slots[i].index # parent_slots[j].index

\* C18: init puts a projection over the reader exactly when the reader reads
\* another number of columns than the scanner returns; and for materialized
\* slots of pairwise distinct columns, equal counts mean equal lists: the
\* reader used directly already yields the requested schema.
C18_ProjectionWhenCountsDiffer ==
    ParamsBuilt =>
        /\ prj_iter = "projection" <=> Len(reader_columns) # Len(scanner_columns)
        /\ prj_iter = "reader" <=> Len(reader_columns) = Len(scanner_columns)
        /\ (DistinctColumns /\ Len(reader_columns) = Len(scanner_columns))
              => reader_columns = scanner_columns

\* aggregation on, two slots of distinct columns covering both key columns:
\* the reader is the output stage
C18_Witness ==
    /\ ParamsBuilt
    /\ ~scan_params.skip_aggregation
    /\ num_key_columns = 2
    /\ Len(scanner_columns) = 2
    /\ DistinctColumns
    /\ prj_iter = "reader"
    /\ reader_columns = scanner_columns

\* C19: over a reader that yields finitely many chunks before end-of-stream
\* or an error, every get_chunk call that entered its loop returns; the loop
\* pulls again only after a chunk that was filtered to nothing, and returns
\* with the first pull that is not such a chunk.
C19_GetChunkReturns ==
    /\ (pc = "get_chunk") ~> (pc = "idle")
    /\ [](pc = "get_chunk" => obs.get_next_calls = obs.discarded)
    /\ []((Returned /\ status # "Cancelled") => obs.get_next_calls = obs.discarded + 1)

\* a call that discarded two fully filtered chunks and then met end-of-stream
C19_Witness ==
    /\ Returned /\ status = "EndOfFile"
    /\ obs.discarded >= 2
    /\ obs.get_next_calls = obs.discarded + 1
    /\ pulls_left = 0

====
